---- MODULE Spec2Model ----
(***************************************************************************)
(* Optimisation sandbox: the stepper (services/optimizer stepSimulation)   *)
(* and the simulation driver of App.tsx (resetSimulation, toggleSimulation,*)
(* the interval loop and the effects that tie them to the configuration).  *)
(*                                                                         *)
(* Numbers.  Coordinates are integers counted in units of 1/(2*Scale), so  *)
(* that the half-integer lattice of the real plane is the set of multiples *)
(* of Scale and the midpoints taken by the genetic variant stay exact for  *)
(* MaxIterations generations.  Cost values are the real values multiplied  *)
(* by 4*Scale^2, which preserves every comparison the code makes.          *)
(***************************************************************************)
EXTENDS Integers, Sequences, FiniteSets, TLC

\* ------------------------------------------------------------------ bounds

\* Largest iteration budget offered by the configuration panel of the model.
MaxIterations == 2

\* Half-width, in lattice steps, of the window of each landscape that is modelled.
GridHalf == 1

\* Iteration budget of the long runs (SpecLong), enough to fill every trail.
LongIterations == 102

\* Units per lattice step: 2^MaxIterations keeps MaxIterations midpoints exact.
Scale == 2 ^ MaxIterations

\* --------------------------------------------------------------- constants

\* INITIAL_CONFIG.populationSize fallback of resetSimulation (populationSize || 20).
DefaultPopulationSize == 20

\* Fallbacks of the tick updater: temperature || 100, mutationRate || 0.1 (per mille).
DefaultTemperature == 100
DefaultMutationRate == 100

\* useState(50): the initial tick period, in ms.
DefaultSimSpeed == 50

\* Trail window tests of the tick updater: trail.length > 100, trail.length > 50.
TrailLimit == 100
GeneticTrailLimit == 50

\* NaN, the number that is no number: an integer beyond every coordinate and
\* cost, told apart by IsNaN before any arithmetic or comparison.
NaN == -(2 ^ 30)
IsNaN(v) == v = NaN

\* a + b and -a of IEEE numbers.
Plus(a, b) == IF IsNaN(a) \/ IsNaN(b) THEN NaN ELSE a + b
Negate(a) == IF IsNaN(a) THEN NaN ELSE -a

\* null and undefined (a record, so that it compares with every object).
NULL == [null |-> TRUE]

\* ------------------------------------------------------------------- types

AlgorithmType == {"GREEDY", "HILL_CLIMBING", "SIMULATED_ANNEALING", "GENETIC"}

Point(x, y, value) == [x |-> x, y |-> y, value |-> value]

\* LANDSCAPES: the catalogue entries that are modelled, each on a window of its
\* domain (the Rastrigin domain is the wider one, as in the catalogue).
LANDSCAPES ==
  << [name |-> "Convex Bowl",
      minX |-> -GridHalf * Scale, maxX |-> GridHalf * Scale,
      minY |-> -GridHalf * Scale, maxY |-> GridHalf * Scale],
     [name |-> "Rastrigin Function",
      minX |-> -(GridHalf + 1) * Scale, maxX |-> (GridHalf + 1) * Scale,
      minY |-> -GridHalf * Scale, maxY |-> GridHalf * Scale] >>

LandscapeNames == {LANDSCAPES[i].name : i \in DOMAIN LANDSCAPES}

\* LANDSCAPES.find(l => l.name === name)
FindLandscape(name) == LANDSCAPES[CHOOSE i \in DOMAIN LANDSCAPES : LANDSCAPES[i].name = name]

\* Scale * cos(2*pi*x) for x = c / (2*Scale), the cosine replaced between lattice
\* points by its linear interpolant (exact on the half-integer lattice).
ScaledCos(c) ==
  LET k == c \div Scale
      r == c % Scale
  IN  IF k % 2 = 0 THEN Scale - 2 * r ELSE 2 * r - Scale

\* func of the landscape called `name`, times 4*Scale^2.
\*   Convex Bowl: x*x + y*y
\*   Rastrigin:   A*2 + (x*x - A*cos(2*pi*x)) + (y*y - A*cos(2*pi*y)), A = 10
func(name, x, y) ==
  IF IsNaN(x) \/ IsNaN(y) THEN NaN
  ELSE IF name = "Convex Bowl"
  THEN x * x + y * y
  ELSE 80 * Scale * Scale
       + (x * x - 40 * Scale * ScaledCos(x))
       + (y * y - 40 * Scale * ScaledCos(y))

\* ----------------------------------------------------------------- helpers

MathMin(a, b) == IF IsNaN(a) \/ IsNaN(b) THEN NaN ELSE IF a < b THEN a ELSE b
MathMax(a, b) == IF IsNaN(a) \/ IsNaN(b) THEN NaN ELSE IF a > b THEN a ELSE b

\* A clamp that forgets the upper bound.
clampNoUpper(val, min, max) == MathMax(val, min)

\* A clamp that forgets the lower bound.
clampNoLower(val, min, max) == MathMin(val, max)

\* const clamp = (val, min, max) => Math.min(Math.max(val, min), max)
clamp(val, min, max) == MathMin(MathMax(val, min), max)

\* Math.random() is modelled by the draws k/8, k in 0..7.
RandomDraws == 0 .. 7
RandomDenominator == Cardinality(RandomDraws)

\* const randomRange = (min, max) => Math.random() * (max - min) + min, for draw r.
randomRange(min, max, r) == (r * (max - min)) \div RandomDenominator + min

\* v || d of JavaScript, for numbers.
OrDefault(v, d) == IF v = 0 THEN d ELSE v

\* Insertion of a after every element of the sorted s whose value is <= a.value.
RECURSIVE InsertByValue(_, _)
InsertByValue(s, a) ==
  IF s = <<>> THEN <<a>>
  ELSE IF a.value < Head(s).value THEN <<a>> \o s
  ELSE <<Head(s)>> \o InsertByValue(Tail(s), a)

\* [...agents].sort((a, b) => a.value - b.value): ascending and stable.
RECURSIVE sortByValue(_)
sortByValue(s) ==
  IF s = <<>> THEN <<>>
  ELSE InsertByValue(sortByValue(SubSeq(s, 1, Len(s) - 1)), s[Len(s)])

\* ----------------------------------------------------------------- stepper

\* The four moves tried by the hill-climbing variants, in evaluation order.
directions(stepSize) ==
  << [dx |-> stepSize, dy |-> 0], [dx |-> Negate(stepSize), dy |-> 0],
     [dx |-> 0, dy |-> stepSize], [dx |-> 0, dy |-> Negate(stepSize)] >>

\* nx, ny, nVal of one direction: the clamped neighbour and its cost.
hillCandidate(agent, L, dir) ==
  LET nx == clamp(Plus(agent.x, dir.dx), L.minX, L.maxX)
      ny == clamp(Plus(agent.y, dir.dy), L.minY, L.maxY)
  IN  Point(nx, ny, func(L.name, nx, ny))

\* A comparison that also moves on a tie.
improvesOrTies(nVal, bestValue) == ~IsNaN(nVal) /\ ~IsNaN(bestValue) /\ nVal <= bestValue

\* if (nVal < bestMove.value)
improves(nVal, bestValue) == ~IsNaN(nVal) /\ ~IsNaN(bestValue) /\ nVal < bestValue

\* bestMove after the first k directions of the loop, starting from {...agent}.
RECURSIVE hillScan(_, _, _, _)
hillScan(agent, L, stepSize, k) ==
  IF k = 0 THEN agent
  ELSE LET bestMove == hillScan(agent, L, stepSize, k - 1)
           cand == hillCandidate(agent, L, directions(stepSize)[k])
       IN  IF improves(cand.value, bestMove.value) THEN cand ELSE bestMove

\* case GREEDY / HILL_CLIMBING, one agent.
hillClimbAgent(agent, L, stepSize) == hillScan(agent, L, stepSize, 4)

\* Angles drawn by the annealing variant that keep the neighbour on the lattice:
\* Math.random() * 2 * pi for the draws 0, 1/4, 1/2, 3/4.
AngleDraws == {0, 2, 4, 6}
CosOf(r) == IF r = 0 THEN 1 ELSE IF r = 4 THEN -1 ELSE 0
SinOf(r) == IF r = 2 THEN 1 ELSE IF r = 6 THEN -1 ELSE 0

\* A draw of Math.random() compared with a probability p: "below" is a draw
\* under p, "above" a draw that is not.  p >= 1 admits no draw that is not under
\* it and p <= 0 none that is.
Chance == {"below", "above"}

\* A neighbour that carries the cost of the position before clamping.
annealCandidateCostBeforeClamp(agent, L, stepSize, angle) ==
  Point(clamp(agent.x + CosOf(angle) * stepSize, L.minX, L.maxX),
        clamp(agent.y + SinOf(angle) * stepSize, L.minY, L.maxY),
        func(L.name, agent.x + CosOf(angle) * stepSize, agent.y + SinOf(angle) * stepSize))

\* The neighbour drawn by the annealing variant.
annealCandidate(agent, L, stepSize, angle) ==
  LET nx == clamp(agent.x + CosOf(angle) * stepSize, L.minX, L.maxX)
      ny == clamp(agent.y + SinOf(angle) * stepSize, L.minY, L.maxY)
  IN  Point(nx, ny, func(L.name, nx, ny))

\* const currentTemp = config.temperature / (1 + iteration * 0.1), as the
\* fraction num / den = (10 * temperature) / (10 + iteration).
currentTemp(temperature, iteration) == [num |-> 10 * temperature, den |-> 10 + iteration]

\* Math.random() < Math.exp(-delta / currentTemp).  For currentTemp > 0 the
\* probability is >= 1 when delta <= 0 and inside (0, 1) otherwise.  For
\* currentTemp = 0 the quotient is -Infinity, NaN or +Infinity as delta is
\* positive, zero or negative: the comparison holds in the last case only.  For
\* currentTemp < 0 the probability is >= 1 when delta >= 0 and inside (0, 1)
\* otherwise.
metropolis(delta, temp, chance) ==
  IF temp.num > 0 THEN delta <= 0 \/ chance = "below"
  ELSE IF temp.num = 0 THEN delta < 0
  ELSE delta >= 0 \/ chance = "below"

\* An annealing step that moves only when the draw is under the probability.
annealAgentByChance(agent, L, stepSize, temp, angle, chance) ==
  IF chance = "below" THEN annealCandidate(agent, L, stepSize, angle) ELSE agent

\* case SIMULATED_ANNEALING, one agent.
annealAgent(agent, L, stepSize, temp, angle, chance) ==
  LET cand == annealCandidate(agent, L, stepSize, angle)
      delta == cand.value - agent.value
  IN  IF delta < 0 \/ metropolis(delta, temp, chance) THEN cand ELSE agent

\* An elite count of a tenth of the population.
eliteCountTenth(n) == n \div 10

\* A generation that keeps no elite.
eliteCountNone(n) == 0

\* Math.floor(agents.length * 0.2)
eliteCount(n) == (n * 2) \div 10

\* A refill that forgets the elites already pushed.
childCountAll(n, elites) == n

\* while (newAgents.length < agents.length): the number of children pushed
\* after `elites` elites.
childCount(n, elites) == n - elites

\* Math.floor(Math.random() * (sorted.length / 2)) for the draw r, 1-based.
parentIndex(r, n) == ((r * n) \div (2 * RandomDenominator)) + 1

\* Math.random() < config.mutationRate (per mille).
mutates(mutationRate, chance) ==
  IF mutationRate >= 1000 THEN TRUE
  ELSE IF mutationRate <= 0 THEN FALSE
  ELSE chance = "below"

\* One child of the genetic variant: c.p1, c.p2 are the parent draws, c.mutate
\* the mutation chance, c.ox, c.oy the draws of the two mutation offsets.
geneticChild(sorted, L, config, c) ==
  LET p1 == sorted[parentIndex(c.p1, Len(sorted))]
      p2 == sorted[parentIndex(c.p2, Len(sorted))]
      midX == (p1.x + p2.x) \div 2
      midY == (p1.y + p2.y) \div 2
      m == mutates(config.mutationRate, c.mutate)
      childX == IF m THEN midX + randomRange(-config.stepSize * 2, config.stepSize * 2, c.ox)
                ELSE midX
      childY == IF m THEN midY + randomRange(-config.stepSize * 2, config.stepSize * 2, c.oy)
                ELSE midY
      cx == clamp(childX, L.minX, L.maxX)
      cy == clamp(childY, L.minY, L.maxY)
  IN  Point(cx, cy, func(L.name, cx, cy))

\* case GENETIC: the elites, then children until the population is refilled.
geneticStep(agents, L, config, children) ==
  LET sorted == sortByValue(agents)
      elites == SubSeq(sorted, 1, eliteCount(Len(agents)))
  IN  elites \o [k \in 1 .. childCount(Len(agents), Len(elites)) |->
                   geneticChild(sorted, L, config, children[k])]

\* A stepper whose hill-climbing step widens as the iterations go by.
stepSimulationWidening(algo, agents, L, iteration, config, rnd) ==
  IF algo \in {"GREEDY", "HILL_CLIMBING"}
  THEN [i \in 1 .. Len(agents) |->
          hillClimbAgent(agents[i], L, config.stepSize * (1 + iteration \div 2))]
  ELSE IF algo = "SIMULATED_ANNEALING"
  THEN [i \in 1 .. Len(agents) |->
          annealAgent(agents[i], L, config.stepSize,
                      currentTemp(config.temperature, iteration),
                      rnd.angle[i], rnd.chance[i])]
  ELSE geneticStep(agents, L, config, rnd.children)

\* stepSimulation(algo, agents, landscape, iteration, config), with the random
\* draws it makes passed in rnd.
stepSimulation(algo, agents, L, iteration, config, rnd) ==
  IF algo \in {"GREEDY", "HILL_CLIMBING"}
  THEN [i \in 1 .. Len(agents) |-> hillClimbAgent(agents[i], L, config.stepSize)]
  ELSE IF algo = "SIMULATED_ANNEALING"
  THEN [i \in 1 .. Len(agents) |->
          annealAgent(agents[i], L, config.stepSize,
                      currentTemp(config.temperature, iteration),
                      rnd.angle[i], rnd.chance[i])]
  ELSE geneticStep(agents, L, config, rnd.children)

\* The points at which one call of stepSimulation evaluates landscape.func.
stepEvaluations(algo, agents, L, config, rnd) ==
  IF algo \in {"GREEDY", "HILL_CLIMBING"}
  THEN {[x |-> hillCandidate(agents[i], L, directions(config.stepSize)[k]).x,
         y |-> hillCandidate(agents[i], L, directions(config.stepSize)[k]).y] :
          i \in 1 .. Len(agents), k \in 1 .. 4}
  ELSE IF algo = "SIMULATED_ANNEALING"
  THEN {[x |-> annealCandidate(agents[i], L, config.stepSize, rnd.angle[i]).x,
         y |-> annealCandidate(agents[i], L, config.stepSize, rnd.angle[i]).y] :
          i \in 1 .. Len(agents)}
  ELSE {[x |-> geneticChild(sortByValue(agents), L, config, rnd.children[k]).x,
         y |-> geneticChild(sortByValue(agents), L, config, rnd.children[k]).y] :
          k \in 1 .. childCount(Len(agents), eliteCount(Len(agents)))}

\* ------------------------------------------------------ draws of Math.random

\* One draw per parent index that Math.floor(Math.random() * (n / 2)) can give.
ParentDraws(n) ==
  {r \in RandomDraws : \A q \in RandomDraws : q < r => parentIndex(q, n) # parentIndex(r, n)}

\* Mutation offsets are sampled at the draw 3/4 (offset +s) in the driver's runs
\* and at the draws 0, 1/2 and 3/4 (-2s, 0, +s) in the runs of SpecStep.
OffsetDraws == {6}
WideOffsetDraws == {0, 4, 6}

ChildDraws(n, offsets) ==
  [p1 : ParentDraws(n), p2 : ParentDraws(n), mutate : {"above"}, ox : {0}, oy : {0}]
  \cup [p1 : ParentDraws(n), p2 : ParentDraws(n), mutate : {"below"},
        ox : offsets, oy : offsets]

NoDraws == [angle |-> <<>>, chance |-> <<>>, children |-> <<>>]

\* Every outcome of the draws one call of stepSimulation makes on n agents.
StepDraws(algo, n) ==
  IF algo \in {"GREEDY", "HILL_CLIMBING"} THEN {NoDraws}
  ELSE IF algo = "SIMULATED_ANNEALING"
  THEN {[angle |-> a, chance |-> c, children |-> <<>>] :
          a \in [1 .. n -> AngleDraws], c \in [1 .. n -> Chance]}
  ELSE {[angle |-> <<>>, chance |-> <<>>, children |-> ch] :
          ch \in [1 .. childCount(n, eliteCount(n)) -> ChildDraws(n, OffsetDraws)]}

\* The initial coordinates are sampled at the draws 0 and 1/2: the lower
\* bound and the centre of the domain.
ResetDraws == {0, 4}

\* The positions the loop of resetSimulation can draw:
\*   x = Math.random() * (maxX - minX) + minX, y likewise.
ResetPoints(L) ==
  {[x |-> randomRange(L.minX, L.maxX, rx), y |-> randomRange(L.minY, L.maxY, ry)] :
     rx \in ResetDraws, ry \in ResetDraws}

\* ------------------------------------------------------------------ driver

VARIABLES
  config,             \* useState(INITIAL_CONFIG)
  configRef,          \* configRef.current
  selectedLandscape,  \* useState(LANDSCAPES[1])
  simSpeed,           \* useState(50): the tick period in ms
  simState,           \* useState<SimulationState>
  interval,           \* the live setInterval: the landscape its callback closed over and
                      \* its delay, or NULL
  resetDeps,          \* dependencies the reset effect last ran with, NULL before mount
  loopDeps,           \* dependencies the loop effect last ran with, NULL before mount
  aiFeedback,         \* useState<string | null>(null): the grading text
  eli5Text,           \* useState<string | null>(null): the simple explanation
  requests,           \* the awaited service calls in flight ("grading": aiLoading is true)
  guidanceCall        \* the config and selectedLandscape of the render whose
                      \* handleUseCaseGeneration awaits getUseCaseGuidance, or NULL

vars == <<config, configRef, selectedLandscape, simSpeed, simState, interval, resetDeps,
          loopDeps, aiFeedback, eli5Text, requests, simSpeed, guidanceCall>>

\* The state of the feedback panel.
feedbackVars == <<aiFeedback, eli5Text, requests, simSpeed>>

\* No feedback text and no call in flight: the useState initialisers.
NoFeedback == aiFeedback = NULL /\ eli5Text = NULL /\ requests = {} /\ guidanceCall = NULL

\* The options of the configuration panel that are modelled (RESEARCH_OPTIONS):
\* learning rates 0.5 and 1.0, budgets and population sizes scaled to the bounds.
LearningRates == {Scale, 2 * Scale}
IterationBudgets == {1, MaxIterations}
PopulationSizes == {1, 2}

\* INITIAL_CONFIG, scaled to the modelled options.
INITIAL_CONFIG ==
  [algo |-> "HILL_CLIMBING", learningRate |-> Scale, maxIterations |-> MaxIterations,
   temperature |-> DefaultTemperature, populationSize |-> 2,
   mutationRate |-> DefaultMutationRate]

\* The first useState initialiser of simState.
EmptySimState ==
  [running |-> FALSE, iteration |-> 0, bestPoint |-> NULL, history |-> <<>>,
   agents |-> <<>>, trails |-> <<>>]

\* A count that takes the population size for every algorithm.
agentCountOfPopulation(cfg) == OrDefault(cfg.populationSize, DefaultPopulationSize)

\* const count = config.algo === GENETIC ? (config.populationSize || 20) : 1
agentCount(cfg) ==
  IF cfg.algo = "GENETIC" THEN OrDefault(cfg.populationSize, DefaultPopulationSize) ELSE 1

\* A reset that leaves the agents in the order they were drawn.
resetStateUnsorted(L, positions) ==
  LET newAgents == [i \in 1 .. Len(positions) |->
                      Point(positions[i].x, positions[i].y,
                            func(L.name, positions[i].x, positions[i].y))]
  IN  [running |-> FALSE, iteration |-> 0, bestPoint |-> newAgents[1],
       history |-> <<[iteration |-> 0, cost |-> newAgents[1].value]>>,
       agents |-> newAgents,
       trails |-> [i \in 1 .. Len(newAgents) |-> <<newAgents[i]>>]]

\* The state resetSimulation sets, for the positions its loop drew.
resetState(L, positions) ==
  LET newAgents == sortByValue([i \in 1 .. Len(positions) |->
                      Point(positions[i].x, positions[i].y,
                            func(L.name, positions[i].x, positions[i].y))])
  IN  [running |-> FALSE, iteration |-> 0, bestPoint |-> newAgents[1],
       history |-> <<[iteration |-> 0, cost |-> newAgents[1].value]>>,
       agents |-> newAgents,
       trails |-> [i \in 1 .. Len(newAgents) |-> <<newAgents[i]>>]]

\* A global best that follows the current best on a tie.
globalBestOnTie(bestPoint, currentBest) ==
  IF bestPoint = NULL \/ currentBest.value <= bestPoint.value THEN currentBest ELSE bestPoint

\* A global best that is never replaced once set.
globalBestFrozen(bestPoint, currentBest) ==
  IF bestPoint = NULL THEN currentBest ELSE bestPoint

\* (!prev.bestPoint || currentBest.value < prev.bestPoint.value) ? currentBest : prev.bestPoint
globalBest(bestPoint, currentBest) ==
  IF bestPoint = NULL \/ currentBest.value < bestPoint.value THEN currentBest ELSE bestPoint

\* A trail that grows at the front.
extendTrailAtFront(trail, agent, limit) ==
  IF Len(trail) > limit THEN <<agent>> \o Tail(trail) ELSE <<agent>> \o trail

\* A trail that starts over from the new position once it is full.
extendTrailRestart(trail, agent, limit) ==
  IF Len(trail) > limit THEN <<agent>> ELSE Append(trail, agent)

\* trail.length > limit ? [...trail.slice(1), agent] : [...trail, agent]
extendTrail(trail, agent, limit) ==
  IF Len(trail) > limit THEN Append(Tail(trail), agent) ELSE Append(trail, agent)

\* nextTrails of the tick updater.
nextTrails(algo, trails, nextAgents) ==
  IF algo = "GENETIC"
  THEN IF Len(trails) # Len(nextAgents)
       THEN [i \in 1 .. Len(nextAgents) |-> <<nextAgents[i]>>]
       ELSE [i \in 1 .. Len(trails) |-> extendTrail(trails[i], nextAgents[i], GeneticTrailLimit)]
  ELSE [i \in 1 .. Len(trails) |-> extendTrail(trails[i], nextAgents[i], TrailLimit)]

\* Parameters handed over as they are configured, an unset temperature or
\* mutation rate included.
stepConfigAsConfigured(currentConfig) ==
  [stepSize |-> currentConfig.learningRate,
   temperature |-> currentConfig.temperature,
   mutationRate |-> currentConfig.mutationRate]

\* The parameters the tick updater hands to stepSimulation.
stepConfig(currentConfig) ==
  [stepSize |-> currentConfig.learningRate,
   temperature |-> OrDefault(currentConfig.temperature, DefaultTemperature),
   mutationRate |-> OrDefault(currentConfig.mutationRate, DefaultMutationRate)]

\* A history entry that records the global best.
historyEntryOfBest(iteration, currentBest, best) == [iteration |-> iteration, cost |-> best.value]

\* { iteration: prev.iteration + 1, cost: currentBest.value }
historyEntry(iteration, currentBest, best) == [iteration |-> iteration, cost |-> currentBest.value]

\* A budget test that never stops the run.
budgetNeverSpent(iteration, maxIterations) == FALSE

\* A budget test that lets one more tick through.
budgetSpentLate(iteration, maxIterations) == iteration > maxIterations

\* if (prev.iteration >= currentConfig.maxIterations)
budgetSpent(iteration, maxIterations) == iteration >= maxIterations

\* The updater the interval callback passes to setSimState.
tickUpdate(prev, currentConfig, L, rnd) ==
  IF budgetSpent(prev.iteration, currentConfig.maxIterations)
  THEN [prev EXCEPT !.running = FALSE]
  ELSE LET nextAgents == stepSimulation(currentConfig.algo, prev.agents, L, prev.iteration,
                                        stepConfig(currentConfig), rnd)
           sortedAgents == sortByValue(nextAgents)
           currentBest == sortedAgents[1]
       IN  [running |-> prev.running,
            iteration |-> prev.iteration + 1,
            bestPoint |-> globalBest(prev.bestPoint, currentBest),
            history |-> Append(prev.history,
                               historyEntry(prev.iteration + 1, currentBest,
                                            globalBest(prev.bestPoint, currentBest))),
            agents |-> nextAgents,
            trails |-> nextTrails(currentConfig.algo, prev.trails, nextAgents)]

\* [config.algo, config.populationSize, selectedLandscape]: what resetSimulation
\* is memoised on, hence what the reset effect depends on.
CurrentResetDeps ==
  [algo |-> config.algo, populationSize |-> config.populationSize,
   landscape |-> selectedLandscape.name]

\* Dependencies of the loop effect that leave the tick period out.
LoopDepsWithoutSpeed ==
  [running |-> simState.running, landscape |-> selectedLandscape.name,
   simSpeed |-> IF loopDeps = NULL THEN simSpeed ELSE loopDeps.simSpeed]

\* Dependencies of the loop effect that leave the running flag out.
LoopDepsWithoutRunning ==
  [running |-> IF loopDeps = NULL THEN simState.running ELSE loopDeps.running,
   landscape |-> selectedLandscape.name, simSpeed |-> simSpeed]

\* [simState.running, selectedLandscape, simSpeed] of the loop effect.
CurrentLoopDeps ==
  [running |-> simState.running, landscape |-> selectedLandscape.name, simSpeed |-> simSpeed]

\* Some effect has yet to run for the state as it is now.
EffectsPending ==
  \/ configRef # config
  \/ resetDeps # CurrentResetDeps
  \/ loopDeps # CurrentLoopDeps

Init ==
  /\ config = INITIAL_CONFIG
  /\ configRef = INITIAL_CONFIG
  /\ selectedLandscape = LANDSCAPES[2]
  /\ simSpeed = DefaultSimSpeed
  /\ simState = EmptySimState
  /\ interval = NULL
  /\ resetDeps = NULL
  /\ loopDeps = NULL
  /\ NoFeedback

\* resetSimulation(), drawing `positions`.
DoReset(positions) ==
  /\ simState' = resetState(selectedLandscape, positions)
  /\ aiFeedback' = NULL
  /\ eli5Text' = NULL

ResetPositions == [1 .. agentCount(config) -> ResetPoints(selectedLandscape)]

\* React commits the latest state and runs, in order, the effects whose
\* dependencies changed: configRef.current = config; resetSimulation(); the loop
\* effect (clearInterval of the previous interval, then setInterval if the
\* committed simState.running is true).
RunEffects ==
  /\ EffectsPending
  /\ configRef' = config
  /\ IF resetDeps # CurrentResetDeps
     THEN \E positions \in ResetPositions : DoReset(positions)
     ELSE UNCHANGED <<simState, aiFeedback, eli5Text>>
  /\ resetDeps' = CurrentResetDeps
  /\ IF loopDeps # CurrentLoopDeps
     THEN interval' = IF simState.running
                      THEN [landscape |-> selectedLandscape.name, delay |-> simSpeed]
                      ELSE NULL
     ELSE UNCHANGED interval
  /\ loopDeps' = CurrentLoopDeps
  /\ UNCHANGED <<config, selectedLandscape, requests, guidanceCall, simSpeed>>

\* A toggle that also rewinds the iteration counter.
toggleAndRewind ==
  /\ ~EffectsPending
  /\ simState' = [simState EXCEPT !.running = ~simState.running, !.iteration = 0]
  /\ UNCHANGED <<config, configRef, selectedLandscape, interval, resetDeps, loopDeps,
                 aiFeedback, eli5Text, requests, guidanceCall, simSpeed>>

\* onClick={toggleSimulation}
toggleSimulation ==
  /\ ~EffectsPending
  /\ simState' = [simState EXCEPT !.running = ~simState.running]
  /\ UNCHANGED <<config, configRef, selectedLandscape, interval, resetDeps, loopDeps,
               aiFeedback, eli5Text, requests, guidanceCall, simSpeed>>

\* onClick={resetSimulation}
resetSimulation ==
  /\ ~EffectsPending
  /\ \E positions \in ResetPositions : DoReset(positions)
  /\ UNCHANGED <<config, configRef, selectedLandscape, interval, resetDeps, loopDeps,
                 requests, guidanceCall, simSpeed>>

\* The algorithm select: setConfig({...config, algo}).
SetAlgo ==
  /\ ~EffectsPending
  /\ \E a \in AlgorithmType \ {config.algo} : config' = [config EXCEPT !.algo = a]
  /\ UNCHANGED <<configRef, selectedLandscape, simState, interval, resetDeps, loopDeps,
               aiFeedback, eli5Text, requests, guidanceCall, simSpeed>>

\* The learning-rate select: setConfig({...config, learningRate}).
SetLearningRate ==
  /\ ~EffectsPending
  /\ \E v \in LearningRates \ {config.learningRate} :
       config' = [config EXCEPT !.learningRate = v]
  /\ UNCHANGED <<configRef, selectedLandscape, simState, interval, resetDeps, loopDeps,
               aiFeedback, eli5Text, requests, guidanceCall, simSpeed>>

\* The max-iterations select: setConfig({...config, maxIterations}).
SetMaxIterations ==
  /\ ~EffectsPending
  /\ \E v \in IterationBudgets \ {config.maxIterations} :
       config' = [config EXCEPT !.maxIterations = v]
  /\ UNCHANGED <<configRef, selectedLandscape, simState, interval, resetDeps, loopDeps,
               aiFeedback, eli5Text, requests, guidanceCall, simSpeed>>

\* The population select: setConfig({...config, populationSize}).
SetPopulationSize ==
  /\ ~EffectsPending
  /\ \E v \in PopulationSizes \ {config.populationSize} :
       config' = [config EXCEPT !.populationSize = v]
  /\ UNCHANGED <<configRef, selectedLandscape, simState, interval, resetDeps, loopDeps,
               aiFeedback, eli5Text, requests, guidanceCall, simSpeed>>

\* The landscape select: setSelectedLandscape(l).
SelectLandscape ==
  /\ ~EffectsPending
  /\ \E name \in LandscapeNames \ {selectedLandscape.name} :
       selectedLandscape' = FindLandscape(name)
  /\ UNCHANGED <<config, configRef, simState, interval, resetDeps, loopDeps,
               aiFeedback, eli5Text, requests, guidanceCall, simSpeed>>

\* The draws of the tick that the interval callback is about to run.
TickDraws ==
  IF budgetSpent(simState.iteration, configRef.maxIterations) THEN {NoDraws}
  ELSE StepDraws(configRef.algo, Len(simState.agents))

\* The points at which the tick evaluates landscape.func, for its draws.
TickEvals(rnd) ==
  IF budgetSpent(simState.iteration, configRef.maxIterations) THEN {}
  ELSE stepEvaluations(configRef.algo, simState.agents, FindLandscape(interval.landscape),
                       stepConfig(configRef), rnd)

\* One firing of the interval: setSimState(prev => ...), with the landscape of
\* the render that created the interval and the configuration read from configRef.
Tick ==
  /\ interval # NULL
  /\ \E rnd \in TickDraws :
       simState' = tickUpdate(simState, configRef, FindLandscape(interval.landscape), rnd)
  /\ UNCHANGED <<config, configRef, selectedLandscape, interval, resetDeps, loopDeps,
               aiFeedback, eli5Text, requests, guidanceCall, simSpeed>>

Next ==
  \/ RunEffects
  \/ toggleSimulation
  \/ resetSimulation
  \/ SetAlgo
  \/ SetLearningRate
  \/ SetMaxIterations
  \/ SetPopulationSize
  \/ SelectLandscape
  \/ Tick

Spec == Init /\ [][Next]_vars

\* ---------------------------------------------------------------- long runs
\* SpecLong: runs long enough to fill the trails, from the state a reset leaves
\* for each configuration, with the draws of Math.random fixed by a stream (as
\* under a seeded generator) so that a run is one chain of ticks.

LongConfigs ==
  {[INITIAL_CONFIG EXCEPT !.algo = a, !.maxIterations = LongIterations, !.populationSize = 1] :
     a \in {"HILL_CLIMBING", "SIMULATED_ANNEALING", "GENETIC"}}
  \cup {[INITIAL_CONFIG EXCEPT !.algo = "GENETIC", !.maxIterations = LongIterations]}

\* The state after `cfg` and `L` were chosen and the reset they trigger drew `positions`.
AfterReset(cfg, L, positions) ==
  /\ config = cfg
  /\ configRef = cfg
  /\ selectedLandscape = L
  /\ simState = resetState(L, positions)
  /\ interval = NULL
  /\ resetDeps = [algo |-> cfg.algo, populationSize |-> cfg.populationSize, landscape |-> L.name]
  /\ simSpeed = DefaultSimSpeed
  /\ loopDeps = [running |-> FALSE, landscape |-> L.name, simSpeed |-> DefaultSimSpeed]
  /\ NoFeedback

InitLong ==
  \E cfg \in LongConfigs, i \in DOMAIN LANDSCAPES :
    \E positions \in [1 .. agentCount(cfg) -> ResetPoints(LANDSCAPES[i])] :
      AfterReset(cfg, LANDSCAPES[i], positions)

\* The draws of the tick at `iteration` under the fixed stream.
SeededDraws(algo, n, iteration) ==
  IF algo \in {"GREEDY", "HILL_CLIMBING"} THEN NoDraws
  ELSE IF algo = "SIMULATED_ANNEALING"
  THEN [angle |-> [i \in 1 .. n |-> 2 * ((iteration + i) % 4)],
        chance |-> [i \in 1 .. n |-> IF iteration % 2 = 0 THEN "below" ELSE "above"],
        children |-> <<>>]
  ELSE [angle |-> <<>>, chance |-> <<>>,
        children |-> [k \in 1 .. childCount(n, eliteCount(n)) |->
                        [p1 |-> 0, p2 |-> 0,
                         mutate |-> IF (iteration + k) % 3 = 0 THEN "below" ELSE "above",
                         ox |-> IF iteration % 2 = 0 THEN 6 ELSE 0,
                         oy |-> IF iteration % 2 = 0 THEN 0 ELSE 6]]]

\* One firing of the interval under the fixed stream.
TickSeeded ==
  /\ interval # NULL
  /\ simState' = tickUpdate(simState, configRef, FindLandscape(interval.landscape),
                            SeededDraws(configRef.algo, Len(simState.agents), simState.iteration))
  /\ UNCHANGED <<config, configRef, selectedLandscape, interval, resetDeps, loopDeps,
               aiFeedback, eli5Text, requests, guidanceCall, simSpeed>>

NextLong ==
  \/ RunEffects
  \/ toggleSimulation
  \/ TickSeeded

SpecLong == InitLong /\ [][NextLong]_vars

\* -------------------------------------------------------------- single steps
\* SpecStep: the first tick of a run that was just started, over populations of
\* up to MaxPopulation agents and a wider sample of the draws; the genetic
\* configurations come with the mutation rate 0.1 and with the mutation rate 0.

MaxPopulation == 5

StepConfigs ==
  {[INITIAL_CONFIG EXCEPT !.algo = a, !.learningRate = lr, !.maxIterations = 1,
                          !.populationSize = n] :
     a \in AlgorithmType, lr \in LearningRates, n \in 1 .. MaxPopulation}
  \cup {[INITIAL_CONFIG EXCEPT !.algo = "GENETIC", !.learningRate = lr, !.maxIterations = 1,
                               !.populationSize = n, !.mutationRate = 0] :
          lr \in LearningRates, n \in 1 .. MaxPopulation}

InitStep ==
  \E cfg \in StepConfigs, i \in DOMAIN LANDSCAPES :
    \E positions \in [1 .. agentCount(cfg) -> ResetPoints(LANDSCAPES[i])] :
      /\ config = cfg
      /\ configRef = cfg
      /\ selectedLandscape = LANDSCAPES[i]
      /\ simState = [resetState(LANDSCAPES[i], positions) EXCEPT !.running = TRUE]
      /\ simSpeed = DefaultSimSpeed
      /\ interval = [landscape |-> LANDSCAPES[i].name, delay |-> DefaultSimSpeed]
      /\ resetDeps = CurrentResetDeps
      /\ loopDeps = CurrentLoopDeps
      /\ NoFeedback

\* The sampled draws of one call of stepSimulation on n agents: every child of a
\* generation draws alike.
WideStepDraws(algo, n) ==
  IF algo = "GENETIC"
  THEN {[angle |-> <<>>, chance |-> <<>>,
         children |-> [k \in 1 .. childCount(n, eliteCount(n)) |-> c]] :
          c \in ChildDraws(n, WideOffsetDraws)}
  ELSE StepDraws(algo, n)

\* One firing of the interval, over the wider sample of draws.
TickWide ==
  /\ interval # NULL
  /\ \E rnd \in (IF budgetSpent(simState.iteration, configRef.maxIterations) THEN {NoDraws}
                 ELSE WideStepDraws(configRef.algo, Len(simState.agents))) :
       simState' = tickUpdate(simState, configRef, FindLandscape(interval.landscape), rnd)
  /\ UNCHANGED <<config, configRef, selectedLandscape, interval, resetDeps, loopDeps,
               aiFeedback, eli5Text, requests, guidanceCall, simSpeed>>

NextStep ==
  \/ RunEffects
  \/ TickWide

SpecStep == InitStep /\ [][NextStep]_vars

\* ------------------------------------------------------------ live editing
\* SpecEdit: runs of each algorithm whose parameters and tick period are
\* edited while they go on.

\* The options of the panel that are modelled: temperatures 10 and 100, mutation
\* rates 0.1 and 0.5 (per mille), tick periods 50 and 100 ms.
Temperatures == {10, DefaultTemperature}
MutationRates == {DefaultMutationRate, 500}
SimSpeeds == {DefaultSimSpeed, 100}

\* The temperature select: setConfig({...config, temperature}).
SetTemperature ==
  /\ ~EffectsPending
  /\ \E v \in Temperatures \ {config.temperature} :
       config' = [config EXCEPT !.temperature = v]
  /\ UNCHANGED <<configRef, selectedLandscape, simState, interval, resetDeps, loopDeps,
                 aiFeedback, eli5Text, requests, guidanceCall, simSpeed>>

\* The mutation-rate select: setConfig({...config, mutationRate}).
SetMutationRate ==
  /\ ~EffectsPending
  /\ \E v \in MutationRates \ {config.mutationRate} :
       config' = [config EXCEPT !.mutationRate = v]
  /\ UNCHANGED <<configRef, selectedLandscape, simState, interval, resetDeps, loopDeps,
                 aiFeedback, eli5Text, requests, guidanceCall, simSpeed>>

\* The speed slider: setSimSpeed(parseInt(e.target.value)).
SetSimSpeed ==
  /\ ~EffectsPending
  /\ \E v \in SimSpeeds \ {simSpeed} : simSpeed' = v
  /\ UNCHANGED <<config, configRef, selectedLandscape, simState, interval, resetDeps, loopDeps,
                 aiFeedback, eli5Text, requests, guidanceCall>>

EditConfigs ==
  {[INITIAL_CONFIG EXCEPT !.algo = a] : a \in {"HILL_CLIMBING", "SIMULATED_ANNEALING", "GENETIC"}}

InitEdit ==
  \E cfg \in EditConfigs :
    \E positions \in [1 .. agentCount(cfg) -> ResetPoints(LANDSCAPES[2])] :
      AfterReset(cfg, LANDSCAPES[2], positions)

NextEdit ==
  \/ RunEffects
  \/ toggleSimulation
  \/ Tick
  \/ SetLearningRate
  \/ SetMaxIterations
  \/ SetTemperature
  \/ SetMutationRate
  \/ SetSimSpeed

SpecEdit == InitEdit /\ [][NextEdit]_vars

\* ------------------------------------------------------------ feedback panel
\* SpecFeedback: the driver together with the two awaited feedback calls, whose
\* texts resetSimulation clears.

\* The AI grading trigger effect: a finished run without feedback starts
\* handleAIGrading, which sets aiLoading and awaits getGeminiFeedback.
handleAIGrading ==
  /\ ~simState.running
  /\ simState.iteration > 0
  /\ aiFeedback = NULL
  /\ "grading" \notin requests
  /\ simState.iteration >= config.maxIterations
  /\ requests' = requests \cup {"grading"}
  /\ UNCHANGED <<config, configRef, selectedLandscape, simState, interval, resetDeps, loopDeps,
                 aiFeedback, eli5Text, simSpeed, guidanceCall>>

\* getGeminiFeedback resolves: setAiFeedback(feedback); setAiLoading(false).
GradingArrives ==
  /\ "grading" \in requests
  /\ aiFeedback' = [text |-> "feedback"]
  /\ requests' = requests \ {"grading"}
  /\ UNCHANGED <<config, configRef, selectedLandscape, simState, interval, resetDeps, loopDeps,
                 eli5Text, simSpeed, guidanceCall>>

\* handleELI5 up to its await: setEli5Text("Analyzing simply...").
handleELI5 ==
  /\ ~EffectsPending
  /\ "eli5" \notin requests
  /\ eli5Text' = [text |-> "Analyzing simply..."]
  /\ requests' = requests \cup {"eli5"}
  /\ UNCHANGED <<config, configRef, selectedLandscape, simState, interval, resetDeps, loopDeps,
                 aiFeedback, simSpeed, guidanceCall>>

\* getELI5Analysis resolves: setEli5Text(text).
ELI5Arrives ==
  /\ "eli5" \in requests
  /\ eli5Text' = [text |-> "explanation"]
  /\ requests' = requests \ {"eli5"}
  /\ UNCHANGED <<config, configRef, selectedLandscape, simState, interval, resetDeps, loopDeps,
                 aiFeedback, simSpeed, guidanceCall>>

NextFeedback ==
  \/ RunEffects
  \/ toggleSimulation
  \/ resetSimulation
  \/ SetAlgo
  \/ Tick
  \/ handleAIGrading
  \/ GradingArrives
  \/ handleELI5
  \/ ELI5Arrives

SpecFeedback == Init /\ [][NextFeedback]_vars

\* ------------------------------------------------------- saved experiments
\* SpecLoad: the driver together with the loading of saved experiments, which
\* handleImport takes from a file as they are.

\* The configurations of the saved experiments: the initial one, those an
\* imported file gives a negative learningRate or a negative maxIterations, and
\* a hill-climbing one whose learningRate is not a number, and annealing ones
\* of temperature 10 and of temperature 0 (the field is optional).
SavedConfigs ==
  {[INITIAL_CONFIG EXCEPT !.algo = a, !.learningRate = lr, !.maxIterations = n] :
     a \in {"HILL_CLIMBING", "GENETIC"}, lr \in {Scale, -Scale}, n \in {MaxIterations, -1}}
  \cup {[INITIAL_CONFIG EXCEPT !.learningRate = NaN]}
  \cup {[INITIAL_CONFIG EXCEPT !.algo = "SIMULATED_ANNEALING", !.temperature = t] :
          t \in {0, 10}}

SavedExperiments ==
  [config : SavedConfigs, landscapeName : LandscapeNames]

\* handleLoadExperiment(exp): setConfig(exp.config), setSelectedLandscape(land),
\* then resetSimulation() as memoised by the current render, that is for the
\* configuration and the landscape from before the load.
handleLoadExperiment ==
  /\ ~EffectsPending
  /\ \E exp \in SavedExperiments :
       /\ config' = exp.config
       /\ selectedLandscape' = FindLandscape(exp.landscapeName)
  /\ \E positions \in ResetPositions : DoReset(positions)
  /\ UNCHANGED <<configRef, interval, resetDeps, loopDeps, requests, guidanceCall, simSpeed>>

NextLoad ==
  \/ RunEffects
  \/ toggleSimulation
  \/ Tick
  \/ handleLoadExperiment

SpecLoad == Init /\ [][NextLoad]_vars

\* ------------------------------------------------------------ unattended runs
\* SpecRun: a run that is started once and then left alone: after the press of
\* Start only the effects and the interval act.  React runs the pending effects
\* after every commit and the interval keeps firing while it exists, which is
\* what the two fairness conditions state.

\* Every algorithm under every budget, with populations of one agent.
RunConfigs ==
  {[INITIAL_CONFIG EXCEPT !.algo = a, !.maxIterations = n, !.populationSize = 1] :
     a \in AlgorithmType, n \in IterationBudgets}

InitRun ==
  \E cfg \in RunConfigs, i \in DOMAIN LANDSCAPES :
    \E positions \in [1 .. agentCount(cfg) -> ResetPoints(LANDSCAPES[i])] :
      AfterReset(cfg, LANDSCAPES[i], positions)

\* The press of Start on a simulation that has budget left.
startSimulation ==
  /\ ~simState.running
  /\ simState.iteration < config.maxIterations
  /\ toggleSimulation

NextRun ==
  \/ RunEffects
  \/ startSimulation
  \/ Tick

SpecRun == InitRun /\ [][NextRun]_vars /\ WF_vars(RunEffects) /\ WF_vars(Tick)

\* ------------------------------------------------------- suggested configuration
\* SpecGuide: the driver together with the AI-suggested configuration.  The
\* handler awaits the service, so what it does afterwards it does with the
\* config and the resetSimulation of the render it was called in, whatever the
\* user has changed in the meantime (here: the selected landscape).

\* The suggestions that are modelled: an algorithm, and a population size or
\* none (0); the other optional fields are left out of the suggestion.
Suggestions == [suggestedAlgo : AlgorithmType, populationSize : {0} \cup PopulationSizes]

\* handleUseCaseGeneration up to its await: the call goes out.
handleUseCaseGeneration ==
  /\ ~EffectsPending
  /\ guidanceCall = NULL
  /\ guidanceCall' = [config |-> config, landscape |-> selectedLandscape.name]
  /\ UNCHANGED <<config, configRef, selectedLandscape, simState, interval, resetDeps, loopDeps,
                 aiFeedback, eli5Text, requests, simSpeed>>

\* getUseCaseGuidance resolves.  With a guidance: setConfig({...config, algo:
\* guidance.suggestedAlgo, ...}) and resetSimulation(), both of the render of the
\* call.  Without one nothing is applied.
GuidanceArrives ==
  /\ ~EffectsPending
  /\ guidanceCall # NULL
  /\ guidanceCall' = NULL
  /\ \/ /\ \E guidance \in Suggestions :
             config' = [guidanceCall.config EXCEPT
                          !.algo = guidance.suggestedAlgo,
                          !.populationSize = IF guidance.populationSize # 0
                                             THEN guidance.populationSize ELSE @]
        /\ \E positions \in [1 .. agentCount(guidanceCall.config) ->
                               ResetPoints(FindLandscape(guidanceCall.landscape))] :
             simState' = resetState(FindLandscape(guidanceCall.landscape), positions)
        /\ aiFeedback' = NULL
        /\ eli5Text' = NULL
     \/ UNCHANGED <<config, simState, aiFeedback, eli5Text>>
  /\ UNCHANGED <<configRef, selectedLandscape, interval, resetDeps, loopDeps, requests,
                 simSpeed>>

NextGuide ==
  \/ RunEffects
  \/ toggleSimulation
  \/ Tick
  \/ SelectLandscape
  \/ handleUseCaseGeneration
  \/ GuidanceArrives

SpecGuide == Init /\ [][NextGuide]_vars

\* ------------------------------------------------------------------ claims

\* resetSimulation has run at least once (the mount effect has fired).
AfterFirstReset == resetDeps # NULL

\* The step is a tick that ran the stepper: only such a step adds one to
\* iteration (a reset sets it to 0, everything else leaves it alone).
SteppingTick == simState'.iteration = simState.iteration + 1

\* The landscape the current run was reset on.
RunLandscape == FindLandscape(resetDeps.landscape)

\* The least cost among `agents`.
MinValue(agents) ==
  CHOOSE v \in {agents[i].value : i \in DOMAIN agents} :
    \A i \in DOMAIN agents : v <= agents[i].value

InBounds(p, L) == L.minX <= p.x /\ p.x <= L.maxX /\ L.minY <= p.y /\ p.y <= L.maxY

Consistent(p, L) == p.value = func(L.name, p.x, p.y)

\* C1: within a run, every tick leaves bestPoint.value no higher than before;
\* bestPoint is replaced exactly when the tick's best agent has a strictly lower
\* value (then by an agent of the new population attaining its least cost), and
\* is otherwise the identical previous point, ties included.
C1_BestPointMonotone ==
  [][SteppingTick =>
       /\ simState'.bestPoint.value <= simState.bestPoint.value
       /\ IF MinValue(simState'.agents) < simState.bestPoint.value
          THEN /\ simState'.bestPoint.value = MinValue(simState'.agents)
               /\ \E i \in DOMAIN simState'.agents : simState'.agents[i] = simState'.bestPoint
          ELSE simState'.bestPoint = simState.bestPoint]_vars

\* A run whose population's best regressed, or tied elsewhere, while bestPoint stayed.
C1_Witness ==
  /\ simState.iteration >= 2
  /\ simState.bestPoint.value < simState.history[1].cost
  /\ simState.history[Len(simState.history)].cost >= simState.bestPoint.value
  /\ \A i \in DOMAIN simState.agents : simState.agents[i] # simState.bestPoint

\* C2 as stated: the state with iteration == maxIterations is idle without a
\* further timer firing.
C2_IdleAtBudget ==
  (AfterFirstReset /\ simState.iteration = configRef.maxIterations) => ~simState.running

\* C2 as amended: a tick runs the stepper only from an iteration below the
\* budget in force, so it never takes iteration beyond it; the state that
\* reaches the budget is still running, and the timer firing that finds the
\* budget spent only clears running.
C2_BudgetEndsRun ==
  /\ [][SteppingTick => simState'.iteration <= configRef.maxIterations]_vars
  /\ [](interval # NULL /\ simState.iteration >= configRef.maxIterations =>
          \A rnd \in TickDraws :
            tickUpdate(simState, configRef, FindLandscape(interval.landscape), rnd)
              = [simState EXCEPT !.running = FALSE])

\* A run that reached its budget and was then made idle by the timer, the
\* interval not yet cleared.
C2_Witness ==
  /\ AfterFirstReset
  /\ simState.iteration = configRef.maxIterations
  /\ simState.iteration = MaxIterations
  /\ ~simState.running
  /\ interval # NULL
  /\ loopDeps.running

C4_EvaluatedInDomain ==
  /\ \A positions \in ResetPositions :
       \A i \in DOMAIN positions : InBounds(positions[i], selectedLandscape)
  /\ interval # NULL =>
       \A rnd \in TickDraws :
         \A p \in TickEvals(rnd) : InBounds(p, FindLandscape(interval.landscape))

\* A tick is due whose unclamped move would leave the domain.
C4_Witness ==
  /\ interval # NULL
  /\ simState.iteration >= 1
  /\ ~budgetSpent(simState.iteration, configRef.maxIterations)
  /\ \E i \in DOMAIN simState.agents :
       simState.agents[i].x + configRef.learningRate > FindLandscape(interval.landscape).maxX

\* C5: the stepper returns as many agents as it was given, for every algorithm
\* and every population size: a tick never changes the number of agents.
C5_PopulationSizeKept ==
  [][SteppingTick => Len(simState'.agents) = Len(simState.agents)]_vars

\* A genetic generation of MaxPopulation agents, one of them an elite.
C5_Witness ==
  /\ simState.iteration = 1
  /\ configRef.algo = "GENETIC"
  /\ Len(simState.agents) = MaxPopulation
  /\ Len(simState.agents) >= 5

\* C6: a genetic tick on n agents carries the floor(n / 5) lowest-value agents
\* of the population (in ascending order of value, earlier agents first among
\* equals) into the next generation with the same x, y and value.
C6_ElitesCarried ==
  [][SteppingTick /\ configRef.algo = "GENETIC" =>
       \A k \in 1 .. (Len(simState.agents) \div 5) :
         /\ simState'.agents[k] \in {simState.agents[i] : i \in DOMAIN simState.agents}
         /\ Cardinality({i \in DOMAIN simState.agents :
                           simState.agents[i].value < simState'.agents[k].value}) < k
         /\ Cardinality({i \in DOMAIN simState.agents :
                           simState.agents[i].value <= simState'.agents[k].value}) >= k]_vars

\* A generation whose elite survived beside children that moved elsewhere.
C6_Witness ==
  /\ simState.iteration = 1
  /\ configRef.algo = "GENETIC"
  /\ Len(simState.agents) >= 5
  /\ simState.agents[1] = simState.trails[1][1]
  /\ simState.agents[2] # simState.agents[1]
  /\ simState.agents[2].value < simState.agents[1].value

\* The cap of the trails of a run of `algo`, as C7 states it.
TrailCap(algo) == IF algo = "GENETIC" THEN 50 ELSE 100

\* C7 as stated: no trail is ever longer than the cap of its algorithm family
\* (100, or 50 for the genetic variant).
C7_TrailWithinCap ==
  AfterFirstReset =>
    \A i \in DOMAIN simState.trails : Len(simState.trails[i]) <= TrailCap(configRef.algo)

\* C8: after reset there is one trail per agent, no trail is empty, and each
\* trail ends with the agent of its slot.
C8_TrailPerAgent ==
  AfterFirstReset =>
    /\ Len(simState.trails) = Len(simState.agents)
    /\ \A i \in DOMAIN simState.trails :
         /\ simState.trails[i] # <<>>
         /\ simState.trails[i][Len(simState.trails[i])] = simState.agents[i]

\* Two agents, each with a trail of every position its slot held in the run.
C8_Witness ==
  /\ simState.iteration = MaxIterations
  /\ Len(simState.agents) = 2
  /\ \A i \in DOMAIN simState.trails : Len(simState.trails[i]) = MaxIterations + 1
  /\ simState.trails[1][1] # simState.agents[1]
  /\ simState.trails[2][1] # simState.agents[2]

C10_HistoryAppendOnly ==
  /\ [](AfterFirstReset =>
          /\ Len(simState.history) = simState.iteration + 1
          /\ \A k \in DOMAIN simState.history : simState.history[k].iteration = k - 1)
  /\ [][SteppingTick =>
          /\ SubSeq(simState'.history, 1, Len(simState.history)) = simState.history
          /\ Len(simState'.history) = Len(simState.history) + 1
          /\ simState'.history[Len(simState'.history)].cost = MinValue(simState'.agents)]_vars

\* A history whose last cost is above the global best.
C10_Witness ==
  /\ simState.iteration = MaxIterations
  /\ simState.history[Len(simState.history)].cost > simState.bestPoint.value
  /\ simState.history[Len(simState.history)].cost > simState.history[1].cost

\* A step that runs resetSimulation: the button, or the reset effect.
ResetStep == resetSimulation \/ (RunEffects /\ resetDeps # CurrentResetDeps)

\* agents is in ascending order of value.
SortedByValue(agents) ==
  \A i \in 1 .. Len(agents) - 1 : agents[i].value <= agents[i + 1].value

\* C11: every reset, from an idle or a running state, leaves running false,
\* iteration 0, agents ascending by value, bestPoint the first agent, history
\* the single entry (0, agents[1].value), one trail per agent holding just that
\* agent, and both feedback texts cleared.
C11_ResetState ==
  [][ResetStep =>
       /\ simState'.running = FALSE
       /\ simState'.iteration = 0
       /\ Len(simState'.agents) >= 1
       /\ SortedByValue(simState'.agents)
       /\ simState'.bestPoint = simState'.agents[1]
       /\ simState'.history = <<[iteration |-> 0, cost |-> simState'.agents[1].value]>>
       /\ Len(simState'.trails) = Len(simState'.agents)
       /\ \A i \in DOMAIN simState'.agents : simState'.trails[i] = <<simState'.agents[i]>>
       /\ aiFeedback' = NULL
       /\ eli5Text' = NULL]_vars

\* A genetic population of two unequal agents just reset while the interval of
\* its run is still live and the explanation, requested before the reset and
\* shown as pending until it, is still awaited.
C11_Witness ==
  /\ simState.iteration = 0
  /\ ~simState.running
  /\ interval # NULL
  /\ Len(simState.agents) = 2
  /\ simState.agents[1].value < simState.agents[2].value
  /\ aiFeedback = NULL
  /\ eli5Text = NULL
  /\ requests = {"eli5"}

MinCost(history) ==
  CHOOSE c \in {history[k].cost : k \in DOMAIN history} :
    \A k \in DOMAIN history : c <= history[k].cost

\* The points kept in the trails: every position an agent slot has held in the
\* run, as long as no trail has been cut.
TrailPoints == {simState.trails[i][k] : i \in DOMAIN simState.trails, k \in 1 .. simState.iteration + 1}

\* C13: after reset bestPoint.value is the least of the costs recorded in
\* history, and bestPoint is an agent the run has held: the trails, uncut in
\* these runs, record every agent since the reset, and bestPoint is among them.
C13_BestIsLeastObserved ==
  AfterFirstReset =>
    /\ simState.bestPoint.value = MinCost(simState.history)
    /\ \A i \in DOMAIN simState.trails : Len(simState.trails[i]) = simState.iteration + 1
    /\ simState.bestPoint \in TrailPoints

\* The run found a point better than its start and then stepped to a worse one:
\* bestPoint is an agent of an earlier iteration, not a current one.
C13_Witness ==
  /\ AfterFirstReset
  /\ simState.iteration >= 2
  /\ simState.bestPoint.value < simState.history[1].cost
  /\ \A i \in DOMAIN simState.agents : simState.agents[i].value > simState.bestPoint.value

\* C14: a pause, and likewise a resume, flips running and leaves iteration,
\* agents, bestPoint, history and trails as they were, so that the resumed run
\* goes on from the state the toggle found.
C14_PauseKeepsState ==
  [][toggleSimulation =>
       /\ simState'.running = ~simState.running
       /\ simState'.iteration = simState.iteration
       /\ simState'.agents = simState.agents
       /\ simState'.bestPoint = simState.bestPoint
       /\ simState'.history = simState.history
       /\ simState'.trails = simState.trails]_vars

\* A run that was paused part-way has just been resumed: running again, not yet
\* seen by the loop effect, with the iteration it was paused at.
C14_Witness ==
  /\ simState.running
  /\ loopDeps # NULL
  /\ loopDeps.running = FALSE
  /\ interval = NULL
  /\ simState.iteration >= 1
  /\ simState.iteration < config.maxIterations
  /\ Len(simState.history) = simState.iteration + 1

ValidConfig(cfg) ==
  /\ ~IsNaN(cfg.learningRate)
  /\ cfg.learningRate >= 0
  /\ cfg.maxIterations >= 0
  /\ cfg.algo = "GENETIC" => cfg.populationSize > 0

\* C16: under an invalid configuration a reset or a start fails, leaving the
\* simulation state as it was, and no tick steps with such a configuration.
C16_InvalidConfigRejected ==
  [][((~ValidConfig(config) /\ (toggleSimulation \/ ResetStep)) => UNCHANGED simState)
     /\ (SteppingTick => ValidConfig(configRef))]_vars

\* The tick about to fire evaluates the landscape function, for some draws, at
\* a point where it returns NaN.
TickMeetsNaN ==
  /\ interval # NULL
  /\ \E rnd \in TickDraws : \E p \in TickEvals(rnd) : IsNaN(func(interval.landscape, p.x, p.y))

\* Some agent, bestPoint or some history entry holds NaN.
HoldsNaN(state) ==
  \/ \E i \in DOMAIN state.agents : IsNaN(state.agents[i].value)
  \/ state.bestPoint # NULL /\ IsNaN(state.bestPoint.value)
  \/ \E k \in DOMAIN state.history : IsNaN(state.history[k].cost)

\* C17: a tick during which the landscape function returns a non-finite value
\* ends in an error outcome of its own, not in the step of an ordinary tick,
\* and stores no such value in agents, bestPoint or history.
C17_NonFiniteIsError ==
  [][(TickMeetsNaN /\ Tick) => (~SteppingTick /\ ~HoldsNaN(simState'))]_vars

\* C18: no tick advances iteration, agents, history or trails from a state whose
\* running flag is false, a timer callback that fires between a pause or a
\* reset and the clearing of the interval included.
C18_TicksOnlyWhileRunning ==
  [][(Tick /\ ~simState.running) =>
       /\ simState'.iteration = simState.iteration
       /\ simState'.agents = simState.agents
       /\ simState'.history = simState.history
       /\ simState'.trails = simState.trails]_vars

\* An edit of a parameter of the configuration or of the tick period.
EditStep == config' # config \/ simSpeed' # simSpeed

\* The states a tick can produce when it reads the configuration cfg.
TickResults(cfg) ==
  LET L == FindLandscape(interval.landscape)
      draws == IF budgetSpent(simState.iteration, cfg.maxIterations) THEN {NoDraws}
               ELSE StepDraws(cfg.algo, Len(simState.agents))
  IN  {tickUpdate(simState, cfg, L, rnd) : rnd \in draws}

HillOptions(agent, L, stepSize) ==
  LET at(x, y) == Point(clamp(x, L.minX, L.maxX), clamp(y, L.minY, L.maxY),
                        func(L.name, clamp(x, L.minX, L.maxX), clamp(y, L.minY, L.maxY)))
  IN  << agent,
         at(agent.x + stepSize, agent.y), at(agent.x - stepSize, agent.y),
         at(agent.x, agent.y + stepSize), at(agent.x, agent.y - stepSize) >>

\* The first point of options that attains their least value.
FirstLeast(options) ==
  options[CHOOSE i \in DOMAIN options :
            /\ \A j \in DOMAIN options : options[i].value <= options[j].value
            /\ \A j \in 1 .. i - 1 : options[j].value > options[i].value]

\* The bowl on [-5, 5]^2 in units of 0.1 (costs in units of 0.01).
TenthsBowl == [name |-> "Convex Bowl", minX |-> -50, maxX |-> 50, minY |-> -50, maxY |-> 50]

\* C20: a hill-climbing or greedy tick turns each agent into the first point, in
\* the order current, +x, -x, +y, -y, that attains the least value among the
\* current position and its four clamped neighbours, hence into itself when no
\* neighbour is strictly better; on the bowl, from (1, 1) with stepSize 0.1, the
\* step gives (0.9, 1) with value 1.81.
C20_HillStepFirstLeast ==
  [][(/\ SteppingTick
      /\ configRef.algo \in {"GREEDY", "HILL_CLIMBING"}) =>
       /\ \A i \in DOMAIN simState.agents :
            simState'.agents[i] =
              FirstLeast(HillOptions(simState.agents[i], FindLandscape(interval.landscape),
                                     configRef.learningRate))
       /\ hillClimbAgent(Point(10, 10, 200), TenthsBowl, 1) = Point(9, 10, 181)]_vars

\* A hill-climbing step took the +x neighbour although the +y neighbour costs
\* the same: the earlier of two equal candidates won.
C20_Witness ==
  /\ configRef.algo \in {"GREEDY", "HILL_CLIMBING"}
  /\ simState.iteration = 1
  /\ Len(simState.trails) = 1
  /\ Len(simState.trails[1]) = 2
  /\ LET from == simState.trails[1][1]
         to == simState.trails[1][2]
         L == RunLandscape
     IN  /\ to = simState.agents[1]
         /\ to.x = from.x + configRef.learningRate
         /\ to.y = from.y
         /\ to.value < from.value
         /\ func(L.name, from.x, clamp(from.y + configRef.learningRate, L.minY, L.maxY)) = to.value

\* C21: a simulated-annealing step gives, for each agent, either the clamped
\* neighbour of one drawn angle with the value of the landscape there or the
\* agent itself (same x, y, value); whatever the angle and the draw compared
\* with the acceptance probability, a neighbour of strictly lower value is the
\* one returned.
C21_AnnealStep ==
  [][(/\ SteppingTick
      /\ configRef.algo = "SIMULATED_ANNEALING") =>
       \A i \in DOMAIN simState.agents :
         LET agent == simState.agents[i]
             L == FindLandscape(interval.landscape)
             s == stepConfig(configRef).stepSize
         IN  /\ \E a \in AngleDraws :
                  LET cand == annealCandidate(agent, L, s, a)
                  IN  /\ cand = Point(cand.x, cand.y, func(L.name, cand.x, cand.y))
                      /\ InBounds(cand, L)
                      /\ simState'.agents[i] \in {cand, agent}
             /\ \A a \in AngleDraws, c \in Chance :
                  LET cand == annealCandidate(agent, L, s, a)
                      temp == currentTemp(stepConfig(configRef).temperature,
                                          simState.iteration)
                  IN  /\ annealAgent(agent, L, s, temp, a, c) \in {cand, agent}
                      /\ cand.value < agent.value =>
                           annealAgent(agent, L, s, temp, a, c) = cand]_vars

\* An annealing tick moved its agent to a neighbour of strictly lower value.
C21_Witness ==
  /\ configRef.algo = "SIMULATED_ANNEALING"
  /\ simState.iteration = 1
  /\ Len(simState.trails[1]) = 2
  /\ simState.agents[1] = simState.trails[1][2]
  /\ simState.trails[1][2].value < simState.trails[1][1].value

\* The temperature the annealing tick about to fire computes.
TickTemp == currentTemp(stepConfig(configRef).temperature, simState.iteration)

\* The fraction a is less than the fraction b (positive denominators).
FractionLess(a, b) == a.num * b.den < b.num * a.den

\* C22 as stated: in every annealing tick the effective temperature is
\* temperature / (1 + 0.1 * iteration) for the temperature of the configuration.
C22_TempOfConfigured ==
  [][(/\ SteppingTick
      /\ configRef.algo = "SIMULATED_ANNEALING") =>
       TickTemp.num * (10 + simState.iteration) = 10 * configRef.temperature * TickTemp.den]_vars

\* C22 as amended: in every annealing tick the effective temperature is
\* t / (1 + 0.1 * iteration), where t is the configured temperature, or 100 when
\* that is 0 or unset; it is positive, never zero, has a non-zero divisor, and
\* the temperature of the next iteration under the same configuration is
\* strictly lower.
C22_TempSchedule ==
  [][(/\ SteppingTick
      /\ configRef.algo = "SIMULATED_ANNEALING") =>
       LET t == IF configRef.temperature = 0 THEN DefaultTemperature
                ELSE configRef.temperature
       IN  /\ TickTemp.den > 0
           /\ TickTemp.num * (10 + simState.iteration) = 10 * t * TickTemp.den
           /\ TickTemp.num > 0
           /\ FractionLess(currentTemp(stepConfig(configRef).temperature,
                                       simState.iteration + 1), TickTemp)]_vars

\* An annealing run of a configuration without temperature has ticked twice.
C22_Witness ==
  /\ configRef.algo = "SIMULATED_ANNEALING"
  /\ configRef.temperature = 0
  /\ simState.iteration = 2
  /\ Len(simState.history) = 3

\* The step is a tick of the genetic variant that ran the stepper.
GeneticTick == SteppingTick /\ configRef.algo = "GENETIC"

\* The number of indices the better half of a population of n holds:
\* floor(n / 2), taken as 1 when that is 0.
BetterHalf(n) == IF n \div 2 = 0 THEN 1 ELSE n \div 2

\* C23: in a genetic step over n agents, whatever is drawn, both parents of a
\* child come from the first floor(n / 2) agents of the population sorted by
\* value (n >= 2, odd or even), from the first agent when n = 1, and the two
\* parents may be the same agent; every agent after the elites is such a child.
C23_ParentsFromBetterHalf ==
  [][GeneticTick =>
       LET n == Len(simState.agents)
           sorted == sortByValue(simState.agents)
           L == FindLandscape(interval.landscape)
       IN  /\ \A r \in RandomDraws : parentIndex(r, n) \in 1 .. BetterHalf(n)
           /\ \A k \in 1 .. BetterHalf(n) : \E r \in RandomDraws : parentIndex(r, n) = k
           /\ \A i \in (eliteCount(n) + 1) .. n :
                \E c \in ChildDraws(n, WideOffsetDraws) :
                  simState'.agents[i] = geneticChild(sorted, L, stepConfig(configRef), c)]_vars

\* The clamped, evaluated midpoints of two agents of `sorted`.
ClampedMidpoints(sorted, L) ==
  {LET cx == clamp((sorted[i].x + sorted[j].x) \div 2, L.minX, L.maxX)
       cy == clamp((sorted[i].y + sorted[j].y) \div 2, L.minY, L.maxY)
   IN  Point(cx, cy, func(L.name, cx, cy)) : i \in DOMAIN sorted, j \in DOMAIN sorted}

\* C24: every agent a genetic tick produces after the elites is the midpoint of
\* two parents, displaced in both coordinates by offsets within
\* [-2 * stepSize, +2 * stepSize] when a draw falls under the configured
\* mutationRate, then clamped and evaluated; under a configured mutationRate of
\* 0 it is exactly the clamped midpoint of two agents.
C24_ChildOfConfiguredRate ==
  [][GeneticTick =>
       LET n == Len(simState.agents)
           sorted == sortByValue(simState.agents)
           L == FindLandscape(interval.landscape)
           configured == [stepSize |-> configRef.learningRate,
                          mutationRate |-> configRef.mutationRate]
       IN  \A i \in (eliteCount(n) + 1) .. n :
             /\ \E c \in ChildDraws(n, WideOffsetDraws) :
                  simState'.agents[i] = geneticChild(sorted, L, configured, c)
             /\ configRef.mutationRate = 0 =>
                  simState'.agents[i] \in ClampedMidpoints(sorted, L)]_vars

\* The trail has reached the length at which the window of its algorithm
\* family stops growing.
TrailFull(trail, algo) ==
  Len(trail) > (IF algo = "GENETIC" THEN GeneticTrailLimit ELSE TrailLimit)

C26_FirstAgentIsBest ==
  AfterFirstReset => simState.agents[1].value = MinValue(simState.agents)

\* The population of the current run carries its best agent into the next
\* tick: a hill-climbing or greedy run, or a genetic run with an elite.
CarriesBest ==
  \/ configRef.algo \in {"GREEDY", "HILL_CLIMBING"}
  \/ configRef.algo = "GENETIC" /\ Len(simState.agents) >= 5

\* The cost the latest tick (or the reset) recorded.
LastCost == simState.history[Len(simState.history)].cost

\* C27: in hill-climbing and greedy runs, and in genetic runs of at least 5
\* agents, the cost recorded in history never increases from one entry to the
\* next and bestPoint.value equals the latest recorded cost; in genetic runs of
\* fewer than 5 agents the latest cost is bounded below by bestPoint.value only.
C27_CostNonIncreasing ==
  AfterFirstReset =>
    /\ CarriesBest =>
         /\ \A k \in 1 .. (Len(simState.history) - 1) :
              simState.history[k + 1].cost <= simState.history[k].cost
         /\ simState.bestPoint.value = LastCost
    /\ (configRef.algo = "GENETIC" /\ Len(simState.agents) < 5) =>
         simState.bestPoint.value <= LastCost

\* A genetic run of fewer than 5 agents whose recorded cost went up: the tick
\* kept none of the agents and bestPoint stays below the latest cost.
C27_Witness ==
  /\ configRef.algo = "GENETIC"
  /\ Len(simState.agents) \in 2 .. 4
  /\ simState.iteration = 1
  /\ simState.history[2].cost > simState.history[1].cost
  /\ simState.bestPoint.value < LastCost

\* C28: in a hill-climbing or greedy run whose landscape and stepSize stay as
\* they are, once a tick has left the agent where it was, every later tick of
\* the run leaves it there, and from then on history repeats the same cost up to
\* the end of the run.
C28_HillFixedPoint ==
  (AfterFirstReset /\ configRef.algo \in {"GREEDY", "HILL_CLIMBING"}) =>
    /\ \A i \in DOMAIN simState.trails :
         \A k \in 1 .. (Len(simState.trails[i]) - 1) :
           simState.trails[i][k + 1] = simState.trails[i][k] =>
             \A j \in k .. Len(simState.trails[i]) :
               simState.trails[i][j] = simState.trails[i][k]
    /\ \A k \in 1 .. (Len(simState.history) - 1) :
         simState.history[k + 1].cost = simState.history[k].cost =>
           \A j \in k .. Len(simState.history) :
             simState.history[j].cost = simState.history[k].cost

\* A hill-climbing run that first descended, then stood still, and was ended
\* by its budget.
C28_Witness ==
  /\ configRef.algo \in {"GREEDY", "HILL_CLIMBING"}
  /\ ~simState.running
  /\ simState.iteration = configRef.maxIterations
  /\ simState.iteration >= 3
  /\ simState.history[2].cost < simState.history[1].cost
  /\ simState.history[Len(simState.history) - 1].cost = LastCost
  /\ simState.trails[1][Len(simState.trails[1]) - 1] = simState.agents[1]

\* The simulation is idle at its budget.
IdleAtBudget == ~simState.running /\ simState.iteration = configRef.maxIterations

\* C29: when the interval keeps firing and the user does nothing more, a
\* simulation that runs with iteration < maxIterations reaches the idle state
\* with iteration == maxIterations and remains in it for ever, and no step
\* taken in that state changes the simulation state.
C29_RunEndsAtBudget ==
  /\ (simState.running /\ simState.iteration < configRef.maxIterations) ~> IdleAtBudget
  /\ [][IdleAtBudget => (IdleAtBudget' /\ UNCHANGED simState)]_vars

\* A run that used up its budget, was stopped by the interval callback, and
\* whose interval the loop effect has cleared.
C29_Witness ==
  /\ IdleAtBudget
  /\ simState.iteration = MaxIterations
  /\ Len(simState.history) = MaxIterations + 1
  /\ interval = NULL
  /\ ~EffectsPending

\* The agents are those a reset draws for configuration cfg on landscape L:
\* the count cfg requires, each inside L's bounds with L's value at its position.
DrawnFor(agents, cfg, L) ==
  /\ Len(agents) = agentCount(cfg)
  /\ \A i \in DOMAIN agents : InBounds(agents[i], L) /\ Consistent(agents[i], L)

\* C30: a change of the algorithm, the populationSize or the selected landscape,
\* made directly, by a loaded experiment or by a suggested configuration, has
\* taken effect once the effects have run: the simulation is then idle at
\* iteration 0 with agents drawn inside the new landscape's bounds in the count
\* the new configuration requires; and no tick steps agents other than those
\* drawn for the landscape and the configuration it steps them with.
C30_ChangeResets ==
  [][/\ (RunEffects /\ resetDeps # NULL /\ resetDeps # CurrentResetDeps) =>
          /\ ~simState'.running
          /\ simState'.iteration = 0
          /\ DrawnFor(simState'.agents, config, selectedLandscape)
     /\ (AfterFirstReset /\ ~EffectsPending /\ simState.iteration = 0) =>
          DrawnFor(simState.agents, config, selectedLandscape)
     /\ SteppingTick =>
          /\ Len(simState.agents) = agentCount(configRef)
          /\ \A i \in DOMAIN simState.agents :
               /\ InBounds(simState.agents[i], FindLandscape(interval.landscape))
               /\ Consistent(simState.agents[i], FindLandscape(interval.landscape))]_vars

====
